---- MODULE Spec2Model ----
(***************************************************************************)
(* Model of main.py: a Telegram bot that sends one line of messages.txt    *)
(* per day to every chat that subscribed.                                  *)
(*                                                                         *)
(* State: application.chat_data (one dict per chat), the pickle file       *)
(* behind PicklePersistence, the jobs of application.job_queue, and the    *)
(* send_message_job callbacks that are suspended in their                  *)
(* `await context.bot.send_message(...)`.                                  *)
(*                                                                         *)
(* A Python dict is a TLA+ function whose DOMAIN is the set of its keys,   *)
(* so a missing key is a key outside the DOMAIN.                           *)
(*                                                                         *)
(* Specifications: Spec (one chat, every command, overlapping callbacks,   *)
(* the file and restarts), SpecClock (the first run of a daily job),       *)
(* SpecHistory and SpecLive (Spec's steps with a record of what has        *)
(* happened; SpecLive adds the end of commands and fairness), SpecNoQueue  *)
(* (no job queue), SpecTwoChats (two chats).                               *)
(***************************************************************************)
EXTENDS Integers, Sequences, FiniteSets, Bags, TLC

VARIABLES
    chat_data,      \* application.chat_data: chat id -> dict
    persisted,      \* content of bot_data.pkl: chat id -> dict
    job_queue,      \* application.job_queue: [present, jobs]
    inflight,       \* send_message_job callbacks awaiting send_message:
                    \* a bag of [job, chat_id, idx, text]
    now,            \* wall clock, minutes since 00:00 UTC of day 0
    next_run_time,  \* next fire instant of the job run_daily added last
    delivered,      \* history: chat id -> indices of MESSAGES whose send returned
    paused,         \* history: chats whose last schedule or cancel command was /pause
    quiet           \* history: no command and no restart happens any more

\* the variables that record what has happened; the program reads none of them
history == <<delivered, paused, quiet>>

\* the variables the program reads and writes
program == <<chat_data, persisted, job_queue, inflight, now, next_run_time>>

vars == <<program, history>>

----------------------------------------------------------------------------
(* Bounds of the model *)

\* len(MESSAGES): number of non-empty lines of messages.txt
NumMessages == 2

\* callbacks of one chat that may be suspended in send_message at once
MaxInflight == 2

\* days of wall clock the next-fire computation is tried on
ClockDays == 2

----------------------------------------------------------------------------
(* Settings, main.py:15-20 *)

DEFAULT_TZ == "Europe/Minsk"

DEFAULT_HOUR == 10

DEFAULT_MINUTE == 0

\* zone names the system timezone database knows (ZoneInfo(name) succeeds)
ZoneNames == {"Europe/Minsk", "UTC"}

\* offset from UTC in minutes of a zone of ZoneNames (neither has DST)
UtcOffset(zone) == IF zone = "UTC" THEN 0 ELSE 3 * 60

MinutesPerDay == 24 * 60

\* chats that can talk to the bot
ChatIds == {1, 2}

\* the chats whose commands and fires the specification Spec explores
OneChat == {1}

\* MESSAGES: line i of messages.txt (Python index i - 1)
MESSAGES == [i \in 1..NumMessages |-> <<"message", i>>]

\* the terminal notice of send_message_job
FINISHED == <<"finished", 0>>

----------------------------------------------------------------------------
(* Python dict operations *)

EmptyDict == <<>>

Get(d, k, default) == IF k \in DOMAIN d THEN d[k] ELSE default

Put(d, k, v) == [x \in (DOMAIN d) \cup {k} |-> IF x = k THEN v ELSE d[x]]

SetDefault(d, k, v) == IF k \in DOMAIN d THEN d ELSE Put(d, k, v)

\* context.chat_data / application.chat_data[chat_id]: chat_data is a
\* defaultdict(dict), reading a missing chat id creates an empty dict
ChatDataOf(cd, chat_id) == Get(cd, chat_id, EmptyDict)

Touch(cd, chat_id) == SetDefault(cd, chat_id, EmptyDict)

----------------------------------------------------------------------------
(* Helpers, main.py:43-85 *)

get_user_tz(data) ==
    LET tz_name == Get(data, "tz", DEFAULT_TZ)
    IN  IF tz_name \in ZoneNames THEN tz_name ELSE DEFAULT_TZ

\* get_user_time with the stored hour and minute ignored
get_user_time_default(data) ==
    [hour |-> DEFAULT_HOUR, minute |-> DEFAULT_MINUTE, tzinfo |-> get_user_tz(data)]

get_user_time(data) ==
    [hour   |-> Get(data, "hour", DEFAULT_HOUR),
     minute |-> Get(data, "minute", DEFAULT_MINUTE),
     tzinfo |-> get_user_tz(data)]

\* job_name giving every chat's job the same name
job_name_shared(chat_id) == <<"daily", 0>>

job_name(chat_id) == <<"daily", chat_id>>

\* get_jobs_by_name asked for a name no job was added under
get_jobs_by_name_missing(jq, name) == {}

get_jobs_by_name(jq, name) == {j \in jq.jobs : j.name = name}

\* cancel_existing_job that removes nothing
cancel_existing_job_keeps(jq, chat_id) == jq

cancel_existing_job(jq, chat_id) ==
    IF ~jq.present
    THEN jq
    ELSE [jq EXCEPT !.jobs = @ \ get_jobs_by_name(jq, job_name(chat_id))]

\* Job.schedule_removal() takes the job out of the queue and marks it removed;
\* a callback of it that is still running keeps running.  Ids name the jobs
\* of the queue only: a running callback whose job left the queue has job = 0.
RECURSIVE SumCopies(_, _)
SumCopies(bag, elems) ==
    IF elems = {}
    THEN 0
    ELSE LET e == CHOOSE x \in elems : TRUE
         IN  bag[e] + SumCopies(bag, elems \ {e})

Retire(running, jq) ==
    LET live    == {j.id : j \in jq.jobs}
        R(f)    == IF f.job \in live THEN f ELSE [f EXCEPT !.job = 0]
        before  == BagToSet(running)
    IN  [g \in {R(f) : f \in before} |->
            SumCopies(running, {f \in before : R(f) = g})]

\* the running callbacks after cancel_existing_job(jq, chat_id)
AfterCancel(running, jq, chat_id) == Retire(running, cancel_existing_job(jq, chat_id))

\* id of a job run_daily adds: one no job of the queue has
NewJobId(jq) ==
    LET used == {j.id : j \in jq.jobs}
    IN  CHOOSE i \in 1..(Cardinality(used) + 1) : i \notin used

run_daily(jq, t, chat_id) ==
    [jq EXCEPT !.jobs = @ \cup
        {[id |-> NewJobId(jq), name |-> job_name(chat_id), time |-> t,
          chat_id |-> chat_id]}]

\* schedule_daily_job without its test for a missing job queue
schedule_daily_job_unguarded(jq, chat_id, data) ==
    run_daily([jq EXCEPT !.jobs = @ \ get_jobs_by_name(jq, job_name(chat_id))],
              get_user_time(data), chat_id)

schedule_daily_job(jq, chat_id, data) ==
    IF ~jq.present
    THEN jq
    ELSE run_daily(cancel_existing_job(jq, chat_id), get_user_time(data), chat_id)

----------------------------------------------------------------------------
(* Commands, main.py:106-170 *)

start(c) ==
    LET d0 == ChatDataOf(chat_data, c)
        d1 == SetDefault(d0, "tz", DEFAULT_TZ)
        d2 == SetDefault(d1, "hour", DEFAULT_HOUR)
        d3 == SetDefault(d2, "minute", DEFAULT_MINUTE)
        d4 == SetDefault(d3, "index", 0)
    IN  /\ chat_data' = Put(chat_data, c, d4)
        /\ job_queue' = schedule_daily_job(job_queue, c, d4)
        /\ inflight' = AfterCancel(inflight, job_queue, c)
        /\ UNCHANGED <<persisted, now, next_run_time>>

\* context.args of /settime: the words after the command; the first word is
\* given as its ":"-separated fields, each an integer literal or not
Num(n) == [int |-> TRUE, value |-> n]

NotNum == [int |-> FALSE, value |-> 0]

SetTimeArgs ==
    { <<>>,
      << <<Num(9), Num(30)>> >>,
      << <<Num(10), Num(0)>> >>,
      << <<Num(24), Num(0)>> >>,
      << <<Num(9), Num(60)>> >>,
      << <<Num(9)>> >>,
      << <<NotNum, Num(30)>> >> }

\* the checks of settime before it touches chat_data (main.py:121-130)
settime_accepts(args) ==
    /\ Len(args) > 0
    /\ Len(args[1]) = 2
    /\ args[1][1].int /\ args[1][2].int
    /\ 0 <= args[1][1].value /\ args[1][1].value <= 23
    /\ 0 <= args[1][2].value /\ args[1][2].value <= 59

settime(c, args) ==
    IF ~settime_accepts(args)
    THEN UNCHANGED program
    ELSE LET hh == args[1][1].value
             mm == args[1][2].value
             d1 == Put(ChatDataOf(chat_data, c), "hour", hh)
             d2 == Put(d1, "minute", mm)
         IN  /\ chat_data' = Put(chat_data, c, d2)
             /\ job_queue' = schedule_daily_job(job_queue, c, d2)
             /\ inflight' = AfterCancel(inflight, job_queue, c)
             /\ UNCHANGED <<persisted, now, next_run_time>>

\* context.args of /settz: the first word is a zone name
SetTzArgs == { <<>>, <<"UTC">>, <<"Europe/Minsk">>, <<"Mars/Phobos">> }

\* the checks of settz before it touches chat_data (main.py:138-145)
settz_accepts(args) == Len(args) > 0 /\ args[1] \in ZoneNames

settz(c, args) ==
    IF ~settz_accepts(args)
    THEN UNCHANGED program
    ELSE LET d1 == Put(ChatDataOf(chat_data, c), "tz", args[1])
         IN  /\ chat_data' = Put(chat_data, c, d1)
             /\ job_queue' = schedule_daily_job(job_queue, c, d1)
             /\ inflight' = AfterCancel(inflight, job_queue, c)
             /\ UNCHANGED <<persisted, now, next_run_time>>

\* status only reads, but reading context.chat_data creates the chat's dict
status(c) ==
    /\ chat_data' = Touch(chat_data, c)
    /\ UNCHANGED <<persisted, job_queue, inflight, now, next_run_time>>

\* /pause that only replies
pause_only_replies(c) == UNCHANGED program

pause(c) ==
    /\ job_queue' = cancel_existing_job(job_queue, c)
    /\ inflight' = AfterCancel(inflight, job_queue, c)
    /\ UNCHANGED <<chat_data, persisted, now, next_run_time>>

resume(c) ==
    /\ chat_data' = Touch(chat_data, c)
    /\ job_queue' = schedule_daily_job(job_queue, c, ChatDataOf(chat_data, c))
    /\ inflight' = AfterCancel(inflight, job_queue, c)
    /\ UNCHANGED <<persisted, now, next_run_time>>

\* /reset that also schedules the job again
reset_reschedules(c) ==
    LET d1 == Put(ChatDataOf(chat_data, c), "index", 0)
    IN  /\ chat_data' = Put(chat_data, c, d1)
        /\ job_queue' = schedule_daily_job(job_queue, c, d1)
        /\ inflight' = AfterCancel(inflight, job_queue, c)
        /\ UNCHANGED <<persisted, now, next_run_time>>

reset(c) ==
    /\ chat_data' = Put(chat_data, c, Put(ChatDataOf(chat_data, c), "index", 0))
    /\ UNCHANGED <<persisted, job_queue, inflight, now, next_run_time>>

----------------------------------------------------------------------------
(* The job callback, main.py:89-103.  It runs up to its await in one step   *)
(* (send_message_job_begin) and resumes when the send has succeeded         *)
(* (send_message_job_sent) or raised (send_message_job_failed).             *)

\* chat_store.get("index", 0)
Cursor(data) == Get(data, "index", 0)

\* the test of main.py:95 as `chat_store is None`
NoChatStore_only_none(cd, chat_id) == chat_id \notin DOMAIN cd

\* `not chat_store`: chat_data.get(chat_id) is None or an empty dict
NoChatStore(cd, chat_id) == chat_id \notin DOMAIN cd \/ DOMAIN cd[chat_id] = {}

\* the test of main.py:98 one message early
Exhausted_one_early(idx) == idx >= NumMessages - 1

\* idx >= len(MESSAGES), the test of main.py:98
Exhausted(idx) == idx >= NumMessages

\* send_message_job always sending the first line
TextToSend_first(idx) == IF idx >= NumMessages THEN FINISHED ELSE MESSAGES[1]

\* send_message_job sending the last line again in place of the notice
TextToSend_repeats_last(idx) ==
    IF idx >= NumMessages THEN MESSAGES[NumMessages] ELSE MESSAGES[idx + 1]

\* the text the callback hands to send_message
TextToSend(idx) == IF Exhausted(idx) THEN FINISHED ELSE MESSAGES[idx + 1]

\* the running callbacks of chat c, and how many they are
InflightOf(c) == {f \in BagToSet(inflight) : f.chat_id = c}

NumInflight(c) == SumCopies(inflight, InflightOf(c))

send_message_job_begin(j) ==
    /\ j \in job_queue.jobs
    /\ \A f \in BagToSet(inflight) : f.job # j.id      \* max_instances = 1 per job
    /\ NumInflight(j.chat_id) < MaxInflight
    /\ IF NoChatStore(chat_data, j.chat_id)
       THEN UNCHANGED <<job_queue, inflight>>
       ELSE LET idx == Cursor(chat_data[j.chat_id])
                 running == inflight (+) SetToBag(
                       {[job |-> j.id, chat_id |-> j.chat_id, idx |-> idx,
                         text |-> TextToSend(idx)]})
            IN  IF Exhausted(idx)
                THEN /\ job_queue' = cancel_existing_job(job_queue, j.chat_id)
                     /\ inflight' = AfterCancel(running, job_queue, j.chat_id)
                ELSE /\ job_queue' = job_queue
                     /\ inflight' = running
    /\ UNCHANGED <<chat_data, persisted, now, next_run_time>>

\* the callback storing a cursor that skips a line
IndexAfterSend_skips(idx) == idx + 2

\* the cursor the callback stores after a send that returned
IndexAfterSend(idx) == idx + 1

\* the callback incrementing the cursor it finds stored when the send has
\* returned (chat_store["index"] += 1)
send_message_job_sent_increments(f) ==
    /\ BagIn(f, inflight)
    /\ inflight' = inflight (-) SetToBag({f})
    /\ chat_data' = IF f.text = FINISHED
                    THEN chat_data
                    ELSE Put(chat_data, f.chat_id,
                             Put(chat_data[f.chat_id], "index",
                                 Cursor(chat_data[f.chat_id]) + 1))
    /\ UNCHANGED <<persisted, job_queue, now, next_run_time>>

send_message_job_sent(f) ==
    /\ BagIn(f, inflight)
    /\ inflight' = inflight (-) SetToBag({f})
    /\ chat_data' = IF f.text = FINISHED
                    THEN chat_data
                    ELSE Put(chat_data, f.chat_id,
                             Put(chat_data[f.chat_id], "index", IndexAfterSend(f.idx)))
    /\ UNCHANGED <<persisted, job_queue, now, next_run_time>>

\* a send that raised advancing the cursor all the same
AfterFailedSend_advances(data, idx) == Put(data, "index", idx + 1)

\* what a send that raised leaves of the chat's dict
AfterFailedSend(data, idx) == data

send_message_job_failed(f) ==
    /\ BagIn(f, inflight)
    /\ inflight' = inflight (-) SetToBag({f})
    /\ chat_data' = IF f.text = FINISHED
                    THEN chat_data
                    ELSE Put(chat_data, f.chat_id,
                             AfterFailedSend(chat_data[f.chat_id], f.idx))
    /\ UNCHANGED <<persisted, job_queue, now, next_run_time>>

----------------------------------------------------------------------------
(* Persistence and startup, main.py:174-192 *)

\* PicklePersistence writes chat_data to bot_data.pkl (periodically and when
\* the application stops)
flush ==
    /\ persisted' = chat_data
    /\ UNCHANGED <<chat_data, job_queue, inflight, now, next_run_time>>

\* whether on_startup schedules a job for a loaded chat
StartupSchedules(data) == TRUE

RECURSIVE on_startup(_, _, _)
on_startup(jq, cd, todo) ==
    IF todo = {}
    THEN jq
    ELSE LET chat_id == CHOOSE x \in todo : \A y \in todo : x <= y
             jq1 == IF StartupSchedules(cd[chat_id])
                    THEN schedule_daily_job(jq, chat_id, cd[chat_id])
                    ELSE jq
         IN  on_startup(jq1, cd, todo \ {chat_id})

\* the process ends (stopped or killed) and main() runs again: chat_data is
\* what the pickle file holds, the job queue is new, running callbacks are gone
restart ==
    /\ chat_data' = persisted
    /\ inflight' = EmptyBag
    /\ job_queue' = on_startup([job_queue EXCEPT !.jobs = {}], persisted,
                               DOMAIN persisted)
    /\ UNCHANGED <<persisted, now, next_run_time>>

----------------------------------------------------------------------------
(* What has happened so far *)

NoHistory ==
    /\ delivered = [c \in ChatIds |-> {}]
    /\ paused = {}
    /\ quiet = FALSE

----------------------------------------------------------------------------
(* The wall clock.  job_queue.run_daily(callback, time=t) adds a job with a  *)
(* cron trigger on t.hour, t.minute in the zone t.tzinfo; the job's first    *)
(* run is the first instant, not before the moment it is added, whose local  *)
(* time of day in that zone is t.                                            *)

\* minutes since local midnight of the instant `at` in `zone`
LocalMinuteOfDay(at, zone) == (at + UtcOffset(zone)) % MinutesPerDay

\* the instant of local midnight of the local day `at` falls in
LocalMidnight(at, zone) == at - LocalMinuteOfDay(at, zone)

\* today's occurrence taken only when it lies strictly after the instant
StillToRun_strict(occurrence, at) == occurrence > at

\* whether today's occurrence, at instant `occurrence`, is still to run for a
\* job added at instant `at`
StillToRun(occurrence, at) == occurrence >= at

NextFireTime(t, at) ==
    LET today == LocalMidnight(at, t.tzinfo) + t.hour * 60 + t.minute
    IN  IF StillToRun(today, at) THEN today ELSE today + MinutesPerDay

\* dicts a chat can have stored when a job is scheduled for it
StoredTimes == { <<10, 0>>, <<9, 30>>, <<0, 0>>, <<23, 59>> }

StoredDicts ==
    LET withTime(d) == {d} \cup {Put(Put(d, "hour", hm[1]), "minute", hm[2]) : hm \in StoredTimes}
        withTz(d)   == {d} \cup {Put(d, "tz", z) : z \in ZoneNames}
    IN  UNION {withTz(d) : d \in withTime(Put(EmptyDict, "index", 0))}

\* /resume arriving at instant `now`: schedule_daily_job with the chat's dict
resume_at(c) ==
    /\ next_run_time = -1
    /\ chat_data' = Touch(chat_data, c)
    /\ job_queue' = schedule_daily_job(job_queue, c, ChatDataOf(chat_data, c))
    /\ next_run_time' = NextFireTime(get_user_time(ChatDataOf(chat_data, c)), now)
    /\ UNCHANGED <<persisted, inflight, now>>

InitClock ==
    /\ chat_data \in {Put(EmptyDict, c, d) : c \in OneChat, d \in StoredDicts}
    /\ persisted = chat_data
    /\ job_queue = [present |-> TRUE, jobs |-> {}]
    /\ inflight = EmptyBag
    /\ now \in 0..(ClockDays * MinutesPerDay - 1)
    /\ next_run_time = -1
    /\ NoHistory

NextClock == \E c \in OneChat : resume_at(c) /\ UNCHANGED history

SpecClock == InitClock /\ [][NextClock]_vars

----------------------------------------------------------------------------

Init ==
    /\ chat_data = EmptyDict
    /\ persisted = EmptyDict
    /\ job_queue = [present |-> TRUE, jobs |-> {}]
    /\ inflight = EmptyBag
    /\ now = 0
    /\ next_run_time = -1
    /\ NoHistory

ChatNext(c) ==
    \/ start(c) /\ UNCHANGED history
    \/ \E args \in SetTimeArgs : settime(c, args) /\ UNCHANGED history
    \/ \E args \in SetTzArgs : settz(c, args) /\ UNCHANGED history
    \/ status(c) /\ UNCHANGED history
    \/ pause(c) /\ UNCHANGED history
    \/ resume(c) /\ UNCHANGED history
    \/ reset(c) /\ UNCHANGED history
    \/ \E j \in job_queue.jobs :
          j.chat_id = c /\ send_message_job_begin(j) /\ UNCHANGED history
    \/ \E f \in BagToSet(inflight) :
          f.chat_id = c /\ send_message_job_sent(f) /\ UNCHANGED history
    \/ \E f \in BagToSet(inflight) :
          f.chat_id = c /\ send_message_job_failed(f) /\ UNCHANGED history

Next ==
    \/ restart /\ UNCHANGED history
    \/ flush /\ UNCHANGED history
    \/ \E c \in OneChat : ChatNext(c)

Spec == Init /\ [][Next]_vars

----------------------------------------------------------------------------
(* The same steps together with what each adds to the history: which lines  *)
(* were delivered, whether the chat's last schedule or cancel command was   *)
(* /pause.  Commands and restarts stop once `quiet` holds.                   *)

\* a schedule_daily_job call for chat c ends a pause of c
Resumes(c) == paused' = paused \ {c} /\ UNCHANGED <<delivered, quiet>>

Pauses(c) == paused' = paused \cup {c} /\ UNCHANGED <<delivered, quiet>>

\* the send of callback f has returned: Telegram accepted the text
Delivers(f) ==
    /\ delivered' = IF f.text = FINISHED
                     THEN delivered
                     ELSE [delivered EXCEPT ![f.chat_id] = @ \cup {f.idx}]
    /\ UNCHANGED <<paused, quiet>>

\* on_startup schedules a job for every chat of the pickle file
Recovers == paused' = paused \ DOMAIN persisted /\ UNCHANGED <<delivered, quiet>>

\* the arguments of /settime and /settz tried with the history
HistoryTimeArgs == { <<>>, << <<Num(9), Num(30)>> >> }

HistoryTzArgs == { <<>>, <<"UTC">> }

\* a job of chat c fires
FireStep(c) ==
    \E j \in job_queue.jobs :
        j.chat_id = c /\ send_message_job_begin(j) /\ UNCHANGED history

\* a send of chat c returns
SentStep(c) ==
    \E f \in BagToSet(inflight) :
        f.chat_id = c /\ send_message_job_sent(f) /\ Delivers(f)

HistoryChatNext(c) ==
    \/ ~quiet /\ start(c) /\ Resumes(c)
    \/ \E args \in HistoryTimeArgs :
          /\ ~quiet
          /\ settime(c, args)
          /\ IF settime_accepts(args) THEN Resumes(c) ELSE UNCHANGED history
    \/ \E args \in HistoryTzArgs :
          /\ ~quiet
          /\ settz(c, args)
          /\ IF settz_accepts(args) THEN Resumes(c) ELSE UNCHANGED history
    \/ ~quiet /\ status(c) /\ UNCHANGED history
    \/ ~quiet /\ pause(c) /\ Pauses(c)
    \/ ~quiet /\ resume(c) /\ Resumes(c)
    \/ ~quiet /\ reset(c) /\ UNCHANGED history
    \/ FireStep(c)
    \/ SentStep(c)
    \/ \E f \in BagToSet(inflight) :
          f.chat_id = c /\ send_message_job_failed(f) /\ UNCHANGED history

NextHistory ==
    \/ ~quiet /\ restart /\ Recovers
    \/ flush /\ UNCHANGED history
    \/ \E c \in OneChat : HistoryChatNext(c)

SpecHistory == Init /\ [][NextHistory]_vars

\* the last command has been handled and the process is not restarted again
stop_commands ==
    /\ ~quiet
    /\ quiet' = TRUE
    /\ UNCHANGED <<program, delivered, paused>>

NextLive == NextHistory \/ stop_commands

\* The job queue runs a job that is due, and no send fails for ever.
SpecLive ==
    /\ Init
    /\ [][NextLive]_vars
    /\ \A c \in OneChat : WF_vars(FireStep(c)) /\ SF_vars(SentStep(c))

----------------------------------------------------------------------------
(* Two chats talking to the bot.  Each chat's jobs fire one at a time here   *)
(* (a job fires when no callback of its chat is running), and the file is    *)
(* left out.                                                                 *)

TwoChatsNext(c) ==
    \/ start(c) /\ UNCHANGED history
    \/ \E args \in HistoryTimeArgs : settime(c, args) /\ UNCHANGED history
    \/ \E args \in HistoryTzArgs : settz(c, args) /\ UNCHANGED history
    \/ status(c) /\ UNCHANGED history
    \/ pause(c) /\ UNCHANGED history
    \/ resume(c) /\ UNCHANGED history
    \/ reset(c) /\ UNCHANGED history
    \/ \E j \in job_queue.jobs :
          /\ j.chat_id = c
          /\ InflightOf(c) = {}
          /\ send_message_job_begin(j)
          /\ UNCHANGED history
    \/ \E f \in BagToSet(inflight) :
          f.chat_id = c /\ send_message_job_sent(f) /\ UNCHANGED history
    \/ \E f \in BagToSet(inflight) :
          f.chat_id = c /\ send_message_job_failed(f) /\ UNCHANGED history

NextTwoChats == \E c \in ChatIds : TwoChatsNext(c)

SpecTwoChats == Init /\ [][NextTwoChats]_vars

----------------------------------------------------------------------------
(* The bot without a job queue: application.job_queue is None (the library  *)
(* is installed without its job-queue extra), so no job ever exists and      *)
(* only the commands, the file and restarts are left.                        *)

InitNoQueue ==
    /\ chat_data = EmptyDict
    /\ persisted = EmptyDict
    /\ job_queue = [present |-> FALSE, jobs |-> {}]
    /\ inflight = EmptyBag
    /\ now = 0
    /\ next_run_time = -1
    /\ NoHistory

NextNoQueue ==
    \/ restart /\ UNCHANGED history
    \/ flush /\ UNCHANGED history
    \/ \E c \in OneChat :
          \/ start(c) /\ UNCHANGED history
          \/ \E args \in SetTimeArgs : settime(c, args) /\ UNCHANGED history
          \/ \E args \in SetTzArgs : settz(c, args) /\ UNCHANGED history
          \/ status(c) /\ UNCHANGED history
          \/ pause(c) /\ UNCHANGED history
          \/ resume(c) /\ UNCHANGED history
          \/ reset(c) /\ UNCHANGED history

SpecNoQueue == InitNoQueue /\ [][NextNoQueue]_vars

----------------------------------------------------------------------------
(* Properties *)

\* the live timers (jobs) of chat c in a job queue
TimersOf(jq, c) == {j \in jq.jobs : j.name = <<"daily", c>>}

\* chat c has a stored, non-empty dict in cd
Registered(cd, c) == c \in DOMAIN cd /\ DOMAIN cd[c] # {}

\* the stored cursor of chat c in cd (0 while the key is missing)
StoredIndex(cd, c) ==
    IF c \in DOMAIN cd /\ "index" \in DOMAIN cd[c] THEN cd[c]["index"] ELSE 0

\* the stored (hour, minute, timezone) of chat c in cd, missing keys read as
\* the defaults 10:00 Europe/Minsk
StoredTime(cd, c) ==
    LET d == IF c \in DOMAIN cd THEN cd[c] ELSE <<>>
    IN  [hour   |-> IF "hour" \in DOMAIN d THEN d["hour"] ELSE 10,
         minute |-> IF "minute" \in DOMAIN d THEN d["minute"] ELSE 0,
         tzinfo |-> IF "tz" \in DOMAIN d THEN d["tz"] ELSE "Europe/Minsk"]

\* the running callbacks
Callbacks == BagToSet(inflight)

\* a step that calls schedule_daily_job for chat c (such a step creates the
\* chat's dict and neither starts nor ends a callback nor writes the file)
ScheduleCall(c) ==
    /\ c \in DOMAIN chat_data'
    /\ persisted' = persisted
    /\ BagCardinality(inflight') = BagCardinality(inflight)
    /\ \/ start(c)
       \/ resume(c)
       \/ \E args \in SetTimeArgs : settime_accepts(args) /\ settime(c, args)
       \/ \E args \in SetTzArgs : settz_accepts(args) /\ settz(c, args)

\* a step in which job j fires and its callback finds a chat store
FireOf(j) == Registered(chat_data, j.chat_id) /\ send_message_job_begin(j)

\* how many running callbacks of chat c are sending `text`
Sending(running, c, text) ==
    SumCopies(running, {f \in BagToSet(running) : f.chat_id = c /\ f.text = text})

\* the texts the model can send
Texts == {MESSAGES[i] : i \in 1..NumMessages} \cup {FINISHED}

C2_CursorInRange ==
    \A c \in ChatIds :
        /\ 0 <= StoredIndex(chat_data, c) /\ StoredIndex(chat_data, c) <= NumMessages
        /\ 0 <= StoredIndex(persisted, c) /\ StoredIndex(persisted, c) <= NumMessages

\* C2 witness: the cursor stands at len(catalog), in memory and on disk, while
\* an overlapping fire that read len(catalog) - 1 has still to store its cursor.
C2_Witness ==
    \E f \in Callbacks :
        /\ f.idx = NumMessages - 1
        /\ StoredIndex(chat_data, f.chat_id) = NumMessages
        /\ StoredIndex(persisted, f.chat_id) = NumMessages

\* C3: there is never more than one live timer per subscriber, and every
\* call of schedule (start, settime, settz, resume), also one that follows
\* another, leaves exactly one.
C3_OneTimerPerSubscriber ==
    [][\A c \in ChatIds :
          /\ Cardinality(TimersOf(job_queue', c)) <= 1
          /\ Cardinality(TimersOf(job_queue', c)) = 1 \/ ~ScheduleCall(c)]_vars

\* C3 witness: the subscriber has exactly one timer while a callback of a
\* timer that a later schedule call replaced is still sending its message.
C3_Witness ==
    \E c \in ChatIds :
        /\ Cardinality(TimersOf(job_queue, c)) = 1
        /\ \E f \in Callbacks : f.chat_id = c /\ f.job = 0 /\ f.idx < NumMessages

\* C4: a fire for a subscriber whose stored cursor is c < len(catalog) hands
\* exactly catalog[c] to the transport, c being the cursor stored at that
\* moment, and when that send succeeds the stored cursor becomes c + 1.
C4_FireSendsCatalogAtCursor ==
    [][/\ \A j \in job_queue.jobs :
            (StoredIndex(chat_data, j.chat_id) < NumMessages /\ FireOf(j)) =>
                \E f \in BagToSet(inflight') :
                    /\ inflight' = inflight (+) SetToBag({f})
                    /\ f.chat_id = j.chat_id
                    /\ f.idx = StoredIndex(chat_data, j.chat_id)
                    /\ f.text = MESSAGES[StoredIndex(chat_data, j.chat_id) + 1]
       /\ \A f \in Callbacks :
            (f.idx < NumMessages /\ send_message_job_sent(f)) =>
                StoredIndex(chat_data', f.chat_id) = f.idx + 1]_vars

\* C4 witness: the stored cursor is one past the cursor a successful send
\* read, and the next fire is sending the message at that new cursor.
C4_Witness ==
    \E f \in Callbacks :
        /\ f.idx = 1
        /\ f.text = MESSAGES[2]
        /\ StoredIndex(chat_data, f.chat_id) = 1
        /\ f.job # 0

\* C5: a fire for a subscriber whose cursor is >= len(catalog) hands only the
\* terminal notice to the transport, leaves the subscriber without a live
\* timer, and neither the fire nor the end of its send changes the cursor.
C5_FinishedFireSendsNoticeAndCancels ==
    [][/\ \A j \in job_queue.jobs :
            (StoredIndex(chat_data, j.chat_id) >= NumMessages /\ FireOf(j)) =>
                /\ \A text \in Texts :
                      Sending(inflight', j.chat_id, text) =
                          Sending(inflight, j.chat_id, text)
                              + (IF text = FINISHED THEN 1 ELSE 0)
                /\ chat_data' = chat_data
                /\ TimersOf(job_queue', j.chat_id) = {}
       /\ \A f \in Callbacks :
            (f.idx >= NumMessages
                /\ (send_message_job_sent(f) \/ send_message_job_failed(f))) =>
                chat_data' = chat_data /\ job_queue' = job_queue]_vars

\* C5 witness: the notice of a completed subscriber is being sent, the cursor
\* is len(catalog) and the subscriber has no timer.
C5_Witness ==
    \E f \in Callbacks :
        /\ f.text = FINISHED
        /\ StoredIndex(chat_data, f.chat_id) = NumMessages
        /\ TimersOf(job_queue, f.chat_id) = {}

C7_FailedSendKeepsCursorAndTimer ==
    [][\A f \in Callbacks :
          send_message_job_failed(f) =>
              /\ chat_data' = chat_data
              /\ StoredIndex(chat_data', f.chat_id) = StoredIndex(chat_data, f.chat_id)
              /\ job_queue' = job_queue
              /\ f.job # 0 => \E j \in TimersOf(job_queue', f.chat_id) : j.id = f.job]_vars

\* C7 witness: a catalog message of a subscriber is being sent by a callback
\* whose timer is live, the stored cursor is the one the callback read, and
\* the send can fail.
C7_Witness ==
    \E f \in Callbacks :
        /\ f.idx < NumMessages
        /\ f.job # 0
        /\ StoredIndex(chat_data, f.chat_id) = f.idx
        /\ ENABLED send_message_job_failed(f)

\* C8 (as stated): after startup recovery exactly the persisted subscribers
\* with cursor < len(catalog) have a timer, one each, set to the stored
\* (hour, minute, timezone); a persisted subscriber with cursor >=
\* len(catalog) has none.
C8_RecoverySchedulesOnlyUnfinished ==
    [][restart =>
          \A c \in ChatIds :
              IF c \in DOMAIN persisted /\ StoredIndex(persisted, c) < NumMessages
              THEN /\ Cardinality(TimersOf(job_queue', c)) = 1
                   /\ \A j \in TimersOf(job_queue', c) : j.time = StoredTime(persisted, c)
              ELSE TimersOf(job_queue', c) = {}]_vars

\* the stored time of chat c in cd is hh:mm
StoredTimeIs(cd, c, hh, mm) ==
    StoredTime(cd, c).hour = hh /\ StoredTime(cd, c).minute = mm

\* C9: when settime or settz stores a new hour, minute or timezone while the
\* subscriber has a live timer, the subscriber afterwards has exactly one
\* timer, set to the stored values, which are the new ones; no callback that
\* is still running belongs to a timer of the queue, so the replaced timer
\* does not fire again.
C9_RescheduleReplacesTimer ==
    [][\A c \in ChatIds :
          (TimersOf(job_queue, c) # {} /\ c \in DOMAIN chat_data') =>
              /\ \A args \in SetTimeArgs :
                    (/\ settime_accepts(args)
                     /\ StoredTimeIs(chat_data', c, args[1][1].value, args[1][2].value)
                     /\ settime(c, args)) =>
                        /\ Cardinality(TimersOf(job_queue', c)) = 1
                        /\ \A j \in TimersOf(job_queue', c) :
                              /\ j.time = StoredTime(chat_data', c)
                              /\ j.time.hour = args[1][1].value
                              /\ j.time.minute = args[1][2].value
                              /\ j.time.tzinfo = StoredTime(chat_data, c).tzinfo
                        /\ \A f \in BagToSet(inflight') : f.chat_id = c => f.job = 0
              /\ \A args \in SetTzArgs :
                    (/\ settz_accepts(args)
                     /\ StoredTime(chat_data', c).tzinfo = args[1]
                     /\ settz(c, args)) =>
                        /\ Cardinality(TimersOf(job_queue', c)) = 1
                        /\ \A j \in TimersOf(job_queue', c) :
                              /\ j.time = StoredTime(chat_data', c)
                              /\ j.time.tzinfo = args[1]
                              /\ j.time.hour = StoredTime(chat_data, c).hour
                              /\ j.time.minute = StoredTime(chat_data, c).minute
                        /\ \A f \in BagToSet(inflight') : f.chat_id = c => f.job = 0]_vars

\* C9 witness: the subscriber's only timer is set to 09:30 UTC, neither of
\* them a default, while a callback of a replaced timer is still running.
C9_Witness ==
    \E c \in ChatIds :
        /\ Cardinality(TimersOf(job_queue, c)) = 1
        /\ \A j \in TimersOf(job_queue, c) :
              j.time = [hour |-> 9, minute |-> 30, tzinfo |-> "UTC"]
        /\ \E f \in Callbacks : f.chat_id = c /\ f.job = 0

\* today's occurrence of the stored local time of chat c, as an instant, for
\* the local day the instant `at` falls in
TodaysOccurrence(cd, c, at) ==
    LET t      == StoredTime(cd, c)
        offset == IF t.tzinfo = "UTC" THEN 0 ELSE 180
        local  == at + offset
    IN  (local - (local % 1440)) + t.hour * 60 + t.minute - offset

C11_NoFireAfterCancel ==
    [][\A c \in ChatIds :
          /\ c \in paused' => TimersOf(job_queue', c) = {}
          /\ (c \in paused /\ c \in paused') =>
                \A text \in Texts :
                    Sending(inflight', c, text) <= Sending(inflight, c, text)
          /\ \A f \in InflightOf(c) :
                (send_message_job_sent(f) \/ send_message_job_failed(f)) =>
                    TimersOf(job_queue', c) = TimersOf(job_queue, c)]_vars

\* C11 witness: the subscriber is paused and has no timer while a callback
\* that was sending a line when /pause arrived is still running.
C11_Witness ==
    \E c \in paused :
        /\ TimersOf(job_queue, c) = {}
        /\ \E f \in InflightOf(c) : f.job = 0 /\ f.idx < NumMessages

\* C12 (as stated): a crash and restart that comes when every command has
\* replied and every callback has returned recovers, for every subscriber,
\* the hour, minute, timezone and cursor stored just before the crash.
C12_AcknowledgedSurvivesCrash ==
    [][(restart /\ inflight = EmptyBag) =>
          \A c \in ChatIds :
              /\ StoredTime(chat_data', c) = StoredTime(chat_data, c)
              /\ StoredIndex(chat_data', c) = StoredIndex(chat_data, c)]_vars

\* the dict of chat c in cd, empty while the chat has none
RecordOf(cd, c) == IF c \in DOMAIN cd THEN cd[c] ELSE <<>>

\* C13: /reset stores cursor 0 for the subscriber and changes nothing else:
\* the job queue is as before (no timer created for a subscriber without
\* one, none cancelled), the running callbacks are as before, every other
\* key of the subscriber's dict, so hour, minute and timezone, keeps its
\* value, and the file is not written.
C13_ResetOnlyZeroesCursor ==
    [][\A c \in ChatIds :
          reset(c) =>
              /\ c \in DOMAIN chat_data'
              /\ "index" \in DOMAIN chat_data'[c] /\ chat_data'[c]["index"] = 0
              /\ DOMAIN chat_data'[c] = DOMAIN RecordOf(chat_data, c) \cup {"index"}
              /\ \A k \in DOMAIN RecordOf(chat_data, c) \ {"index"} :
                    chat_data'[c][k] = chat_data[c][k]
              /\ StoredTime(chat_data', c) = StoredTime(chat_data, c)
              /\ job_queue' = job_queue
              /\ TimersOf(job_queue', c) = TimersOf(job_queue, c)
              /\ inflight' = inflight
              /\ persisted' = persisted]_vars

\* C13 witness: the cursor in memory is 0 while the file still holds the
\* cursor len(catalog) of the completed subscriber (only /reset lowers the
\* cursor in memory below the one in the file), and the subscriber, whose
\* timer the terminal fire cancelled, has no timer.
C13_Witness ==
    \E c \in ChatIds :
        /\ Registered(chat_data, c)
        /\ StoredIndex(chat_data, c) = 0
        /\ StoredIndex(persisted, c) = NumMessages
        /\ TimersOf(job_queue, c) = {}
        /\ InflightOf(c) = {}

\* the four keys /start stores
ConfigKeys == {"tz", "hour", "minute", "index"}

\* C14: without a job queue every command ends with the job queue as it was,
\* still missing and without a job (schedule and cancel do nothing, startup
\* recovery included), and start, settime and settz store what they store
\* with a job queue: start fills in the missing keys with the defaults,
\* settime stores the hour and minute given, settz the zone given.
C14_NoQueueCommandsStillStore ==
    [][/\ ~job_queue'.present /\ job_queue'.jobs = {} /\ job_queue' = job_queue
       /\ inflight' = EmptyBag
       /\ \A c \in ChatIds :
            /\ (pause(c) \/ resume(c)) =>
                  \A k \in DOMAIN RecordOf(chat_data, c) :
                      RecordOf(chat_data', c)[k] = chat_data[c][k]
            /\ start(c) =>
                  /\ DOMAIN RecordOf(chat_data', c) = DOMAIN RecordOf(chat_data, c) \cup ConfigKeys
                  /\ StoredTime(chat_data', c) = StoredTime(chat_data, c)
                  /\ StoredIndex(chat_data', c) = StoredIndex(chat_data, c)
            /\ \A args \in SetTimeArgs :
                  (settime_accepts(args) /\ settime(c, args)) =>
                      /\ StoredTimeIs(chat_data', c, args[1][1].value, args[1][2].value)
                      /\ StoredTime(chat_data', c).tzinfo = StoredTime(chat_data, c).tzinfo
                      /\ StoredIndex(chat_data', c) = StoredIndex(chat_data, c)
            /\ \A args \in SetTzArgs :
                  (settz_accepts(args) /\ settz(c, args)) =>
                      /\ StoredTime(chat_data', c).tzinfo = args[1]
                      /\ StoredTime(chat_data', c).hour = StoredTime(chat_data, c).hour
                      /\ StoredTime(chat_data', c).minute = StoredTime(chat_data, c).minute
                      /\ StoredIndex(chat_data', c) = StoredIndex(chat_data, c)]_vars

\* C14 witness: without a job queue the subscriber's dict holds the four
\* keys of /start with the time 09:30 of /settime and the zone UTC of /settz,
\* and there is no job.
C14_Witness ==
    \E c \in ChatIds :
        /\ ~job_queue.present /\ job_queue.jobs = {}
        /\ c \in DOMAIN chat_data
        /\ ConfigKeys \subseteq DOMAIN chat_data[c]
        /\ StoredTime(chat_data, c) = [hour |-> 9, minute |-> 30, tzinfo |-> "UTC"]

\* chat c has the four keys /start stores
Configured(cd, c) == c \in DOMAIN cd /\ ConfigKeys \subseteq DOMAIN cd[c]

\* chat c is through: cursor len(catalog), every line delivered, no timer
Done(c) ==
    /\ StoredIndex(chat_data, c) = NumMessages
    /\ delivered[c] = 0..(NumMessages - 1)
    /\ TimersOf(job_queue, c) = {}

\* C15 (as stated): in every behaviour with finitely many commands and
\* restarts in which the subscriber is not left paused, a subscriber that
\* /start has registered is eventually through: cursor len(catalog), every
\* line delivered, no live timer.
C15_EverySubscriberCompletes ==
    \A c \in OneChat :
        (<>quiet /\ <>Configured(chat_data, c) /\ <>[](c \notin paused))
            => <>Done(c)

\* C16 (as stated): a command and a running delivery of the same subscriber
\* lose neither's update: the cursor write of a callback keeps the stored
\* hour, minute and timezone, an accepted settime or settz keeps the stored
\* cursor, and when /reset has lowered the cursor since the callback read
\* it, the callback's write does not undo the reset: it leaves the cursor at
\* most one above the cursor /reset stored.
C16_NoUpdateLost ==
    [][/\ \A f \in Callbacks :
            (f.text # FINISHED /\ send_message_job_sent(f)) =>
                /\ StoredTime(chat_data', f.chat_id) = StoredTime(chat_data, f.chat_id)
                /\ StoredIndex(chat_data, f.chat_id) < f.idx =>
                      StoredIndex(chat_data', f.chat_id)
                          <= StoredIndex(chat_data, f.chat_id) + 1
       /\ \A c \in ChatIds :
            (InflightOf(c) # {} /\ ScheduleCall(c)) =>
                StoredIndex(chat_data', c) = StoredIndex(chat_data, c)]_vars

\* C17 (as stated): a subscriber never has two callbacks running at once,
\* each between its read of the cursor and its write, also not when a schedule
\* call replaces the timer while a callback is running; so no two running
\* callbacks are sending the same line.
C17_FiresNeverOverlap ==
    \A c \in ChatIds :
        /\ NumInflight(c) <= 1
        /\ \A i \in 1..NumMessages : Sending(inflight, c, MESSAGES[i]) <= 1

\* the lines below index k have all been delivered to chat c
DeliveredBelow(c, k) == \A j \in 0..(k - 1) : j \in delivered[c]

\* C18: a line is handed to the transport only when every line before it has
\* been delivered to that subscriber, and the stored cursor, in memory and in
\* the file, never stands beyond a line that has not been delivered; so
\* across fires, failed sends, reschedules and restarts no line is skipped.
\* (This holds whether or not the subscriber is reset: /reset only lowers
\* the cursor.)
C18_NoLineSkipped ==
    \A c \in ChatIds :
        /\ \A f \in InflightOf(c) : f.text # FINISHED => DeliveredBelow(c, f.idx)
        /\ \A f \in InflightOf(c) : f.text = FINISHED => DeliveredBelow(c, NumMessages)
        /\ DeliveredBelow(c, StoredIndex(chat_data, c))
        /\ DeliveredBelow(c, StoredIndex(persisted, c))

\* C18 witness: the second line is being sent, the first and only the first
\* having been delivered, while the file still holds the cursor 0 (a restart
\* now would have the first line sent again, not the second skipped).
C18_Witness ==
    \E c \in ChatIds : \E f \in InflightOf(c) :
        /\ f.idx = 1 /\ f.text = MESSAGES[2]
        /\ delivered[c] = {0}
        /\ StoredIndex(persisted, c) = 0
        /\ "index" \in DOMAIN RecordOf(persisted, c)

\* C19: when a job fires for a subscriber that has no stored record (no
\* dict, or an empty one), nothing is handed to the transport, no
\* subscriber's dict changes and the job queue stays as it is.
C19_FireWithoutRecordDoesNothing ==
    [][\A j \in job_queue.jobs :
          (~Registered(chat_data, j.chat_id) /\ send_message_job_begin(j)) =>
              /\ inflight' = inflight
              /\ chat_data' = chat_data
              /\ persisted' = persisted
              /\ job_queue' = job_queue]_vars

\* C19 witness: a subscriber whose dict is empty (it only sent /resume) has
\* a live timer, and the timer can fire.
C19_Witness ==
    \E j \in job_queue.jobs :
        /\ j.chat_id \in DOMAIN chat_data
        /\ DOMAIN chat_data[j.chat_id] = {}
        /\ ENABLED send_message_job_begin(j)

\* the jobs the queue holds for chat c, whatever their name
JobsFor(jq, c) == {j \in jq.jobs : j.chat_id = c}

\* the running callbacks of chat c with how many of each are running
RunningFor(running, c) ==
    {<<f, running[f]>> : f \in {g \in BagToSet(running) : g.chat_id = c}}

\* C20: a command, a fire or the end of a send of one subscriber leaves every
\* other subscriber as it is: whether it has a dict, the dict (timezone,
\* hour, minute, cursor), its jobs and its running callbacks; so schedule and
\* cancel for one subscriber neither remove nor replace another's timer.
\* (Stated from the side of the subscriber b that is left alone: a step that
\* changes anything of b is not a step of another subscriber.)
C20_OtherSubscribersUntouched ==
    [][\A b \in ChatIds :
          \/ /\ (b \in DOMAIN chat_data') = (b \in DOMAIN chat_data)
             /\ RecordOf(chat_data', b) = RecordOf(chat_data, b)
             /\ RecordOf(persisted', b) = RecordOf(persisted, b)
             /\ JobsFor(job_queue', b) = JobsFor(job_queue, b)
             /\ RunningFor(inflight', b) = RunningFor(inflight, b)
          \/ \A a \in ChatIds \ {b} : ~TwoChatsNext(a)]_vars

\* C20 witness: both subscribers have a timer and different stored times,
\* and a schedule call has replaced the timer of one of them while its
\* callback was running and the other's callback was running too.
C20_Witness ==
    \E a \in ChatIds : \E b \in ChatIds \ {a} :
        /\ JobsFor(job_queue, a) # {} /\ JobsFor(job_queue, b) # {}
        /\ StoredTime(chat_data, a) # StoredTime(chat_data, b)
        /\ \E f \in InflightOf(a) : f.job = 0
        /\ \E f \in InflightOf(b) : f.job # 0

====
